---- MODULE Spec2Model ----
(***************************************************************************)
(* Model of portland_nesc/docs/md_to_docx.py: the line-oriented block      *)
(* parser parse_markdown and the inline tokenizer add_formatted_text.      *)
(* Strings are sequences of one-character strings, the cursor i is 0-based *)
(* as in the source (lines[i] is At(i)).                                   *)
(***************************************************************************)
EXTENDS Integers, Sequences, FiniteSets, TLC

(* ---------- bounds ---------- *)
MaxLines == 3

\* longest generated input of add_formatted_text
MaxTokLen == 5

(* ---------- characters ---------- *)
\* what str.strip() and the regex class \s treat as white space
Whitespace == {" ", "\t", "\n", "\r"}

\* the regex character class [\s\-:|]
SepClass == Whitespace \cup {"-", ":", "|"}

\* the backtick character (a TLA+ string literal cannot hold it)
BT == "BACKTICK"

Fence == <<BT, BT, BT>>

\* the three horizontal-rule spellings
RuleTexts == { <<"-", "-", "-">>, <<"*", "*", "*">>, <<"_", "_", "_">> }

(* ---------- string helpers (Python str methods) ---------- *)
RECURSIVE LStrip(_, _)
LStrip(s, cs) ==
  IF s # <<>> /\ Head(s) \in cs THEN LStrip(Tail(s), cs) ELSE s

RECURSIVE RStrip(_, _)
RStrip(s, cs) ==
  IF s # <<>> /\ s[Len(s)] \in cs THEN RStrip(SubSeq(s, 1, Len(s) - 1), cs) ELSE s

Strip(s, cs) == RStrip(LStrip(s, cs), cs)

StartsWith(s, p) == Len(s) >= Len(p) /\ SubSeq(s, 1, Len(p)) = p

Contains(s, c) == \E k \in 1..Len(s) : s[k] = c

RECURSIVE Split(_, _)
Split(s, c) ==
  IF ~Contains(s, c) THEN << s >>
  ELSE LET p == CHOOSE k \in 1..Len(s) : s[k] = c /\ \A j \in 1..(k - 1) : s[j] # c
       IN  << SubSeq(s, 1, p - 1) >> \o Split(SubSeq(s, p + 1, Len(s)), c)

RECURSIVE Join(_, _)
Join(ss, sep) ==
  IF ss = <<>> THEN <<>>
  ELSE IF Len(ss) = 1 THEN ss[1]
  ELSE ss[1] \o sep \o Join(Tail(ss), sep)

(* ---------- line classification used by parse_markdown ---------- *)
IsHeadingLine(l) == StartsWith(l, <<"#">>)

\* variant: the level is capped at six
HeadingLevelCapped(l) ==
  IF Len(l) - Len(LStrip(l, {"#"})) > 6 THEN 6 ELSE Len(l) - Len(LStrip(l, {"#"}))

HeadingLevel(l) == Len(l) - Len(LStrip(l, {"#"}))

HeadingText(l) == Strip(LStrip(l, {"#"}), Whitespace)

IsRuleLine(l) == Strip(l, Whitespace) \in RuleTexts

IsFenceLine(l) == StartsWith(Strip(l, Whitespace), Fence)

HasPipe(l) == Contains(l, "|")

IsBlankLine(l) == Strip(l, Whitespace) = <<>>

\* re.match(r"^\s*\|[\s\-:|]+\|\s*$", l)
TableSepMatch(l) ==
  \E a, b \in 1..Len(l) :
     /\ b >= a + 2
     /\ l[a] = "|" /\ l[b] = "|"
     /\ \A j \in 1..(a - 1) : l[j] \in Whitespace
     /\ \A j \in (a + 1)..(b - 1) : l[j] \in SepClass
     /\ \A j \in (b + 1)..Len(l) : l[j] \in Whitespace

\* re.match(r"^[\s\-:|]+$", l.strip().strip("|"))
SepRowMatch(l) ==
  LET t == Strip(Strip(l, Whitespace), {"|"})
  IN  t # <<>> /\ \A j \in 1..Len(t) : t[j] \in SepClass

\* variant: the cells are not trimmed
CellsNoTrim(l) == Split(Strip(Strip(l, Whitespace), {"|"}), "|")

\* [c.strip() for c in l.strip().strip("|").split("|")]
Cells(l) ==
  LET parts == Split(Strip(Strip(l, Whitespace), {"|"}), "|")
  IN  [k \in 1..Len(parts) |-> Strip(parts[k], Whitespace)]

(* ---------- inputs ---------- *)
LinePool ==
  { <<>>,
    <<" ">>,
    <<"a">>,
    <<"b", " ">>,
    <<"#", "a">>,
    <<"#", "#", " ", "a", " ">>,
    <<"#", "#", "#", "#", "#", "#", "#", "a">>,
    <<" ", "#", "a">>,
    <<"-", "-", "-">>,
    <<BT, BT, BT>>,
    <<" ", BT, BT, BT, "a">>,
    <<"a", "|", "b">>,
    <<"|", " ", "a", " ", "|", "b", "|">>,
    <<"|", "-", "|">>,
    <<"-", "|", "-">>,
    <<"|", "|", "|">>,
    <<"#", "a", "|">>,
    <<BT, BT, BT, "|">> }

LineSeqs == UNION { [1..n -> LinePool] : n \in 1..MaxLines }

\* text, lines, i, blocks, code_lines, rows, para_lines: the parameter and the
\*   locals of parse_markdown (md_to_docx.py lines 12-68)
\* pc: where control is: "outer" (line 17), "code" (line 38), "table" (line 48),
\*   "para" (line 64), "done" (returned, line 70)
\* top: the index at which the current outer iteration read line = lines[i] (line 18)
\* consumed: for every line index, the statement i += 1 that moved the cursor past it
VARIABLES text, lines, i, blocks, pc, code_lines, rows, para_lines, top, consumed

\* run: which call of parse_markdown is executing (1: on the text, 2: on text + "\n")
\* first_blocks: the list the first call returned
VARIABLES run, first_blocks

\* ttext, parts, pidx: the parameter text, the list parts and the position of the
\*   for loop of add_formatted_text (md_to_docx.py lines 73-90)
\* runs: the runs added to the paragraph so far, in order
\* tpc: where control is in add_formatted_text: "idle" (not called), "split"
\*   (line 76), "loop" (line 77), "done" (returned)
VARIABLES ttext, parts, pidx, runs, tpc

\* doc: the body of the document convert_md_to_docx builds, in the order written
\* bidx: the number of blocks the loop of line 106 has rendered
\* cpc: where control is in convert_md_to_docx: "idle" (not called), "parse"
\*   (line 96), "loop" (line 106), "saved" (line 150 done)
VARIABLES doc, bidx, cpc

\* db_path, conn_str: the parameter and the local of connect (access_reader.py 23-47)
\* db_exists: whether the file system has db_path
\* driver_ok: whether the ODBC driver accepts the connection
\* dpc: where control is in connect: "idle" (not called), "exists" (line 44),
\*   "string" (line 46), "odbc" (line 47), "raised", "returned"
\* outcome: the exception raised or the value returned
\* calls: the checks and calls connect has made so far, in order
VARIABLES db_path, db_exists, driver_ok, conn_str, dpc, outcome, calls

parsevars == <<text, lines, i, blocks, pc, code_lines, rows, para_lines, top, consumed>>

callvars == <<run, first_blocks>>

tokvars == <<ttext, parts, pidx, runs, tpc>>

convvars == <<doc, bidx, cpc>>

dbvars == <<db_path, db_exists, driver_ok, conn_str, dpc, outcome, calls>>

vars == <<parsevars, callvars, tokvars, convvars, dbvars>>

At(k) == lines[k + 1]

InRange(k) == k < Len(lines)

\* add_formatted_text is not running
TokIdle ==
  /\ ttext = <<>>
  /\ parts = <<>>
  /\ pidx = 0
  /\ runs = <<>>
  /\ tpc = "idle"

\* convert_md_to_docx is not running
ConvIdle ==
  /\ doc = <<>>
  /\ bidx = 0
  /\ cpc = "idle"

NoOutcome == [type |-> "none", msg |-> <<>>]

\* connect is not running
DbIdle ==
  /\ db_path = <<>>
  /\ db_exists = FALSE
  /\ driver_ok = FALSE
  /\ conn_str = <<>>
  /\ dpc = "idle"
  /\ outcome = NoOutcome
  /\ calls = <<>>

(* ---------- parse_markdown ---------- *)
Init ==
  /\ \E ls \in LineSeqs : text = Join(ls, <<"\n">>)
  /\ lines = Split(text, "\n")
  /\ i = 0
  /\ blocks = <<>>
  /\ pc = "outer"
  /\ code_lines = <<>>
  /\ rows = <<>>
  /\ para_lines = <<>>
  /\ top = 0
  /\ consumed = [k \in 0..(Len(lines) - 1) |-> "none"]
  /\ run = 1
  /\ first_blocks = <<>>
  /\ TokIdle
  /\ ConvIdle
  /\ DbIdle

\* the lookahead of the table branch
TableLookahead(k) == HasPipe(At(k)) /\ InRange(k + 1) /\ TableSepMatch(At(k + 1))

\* variant: the paragraph loop does not stop at a heading line
ParaCondNoHeading(k) ==
  /\ InRange(k)
  /\ ~IsBlankLine(At(k))
  /\ ~IsFenceLine(At(k))
  /\ ~(HasPipe(At(k)) /\ InRange(k + 1) /\ HasPipe(At(k + 1)))

\* variant: the paragraph loop does not stop at a blank line
ParaCondNoBlank(k) ==
  /\ InRange(k)
  /\ ~IsHeadingLine(At(k))
  /\ ~IsFenceLine(At(k))
  /\ ~(HasPipe(At(k)) /\ InRange(k + 1) /\ HasPipe(At(k + 1)))

\* the continuation condition of the paragraph loop
ParaCond(k) ==
  /\ InRange(k)
  /\ ~IsBlankLine(At(k))
  /\ ~IsHeadingLine(At(k))
  /\ ~IsFenceLine(At(k))
  /\ ~(HasPipe(At(k)) /\ InRange(k + 1) /\ HasPipe(At(k + 1)))

Heading ==
  /\ pc = "outer" /\ InRange(i)
  /\ IsHeadingLine(At(i))
  /\ blocks' = Append(blocks, [type |-> "heading", level |-> HeadingLevel(At(i)),
                               text |-> HeadingText(At(i))])
  /\ consumed' = [consumed EXCEPT ![i] = "heading"]
  /\ i' = i + 1
  /\ top' = i
  /\ UNCHANGED <<text, lines, pc, code_lines, rows, para_lines>>
  /\ UNCHANGED <<callvars, tokvars, convvars, dbvars>>

HorizontalRule ==
  /\ pc = "outer" /\ InRange(i)
  /\ ~IsHeadingLine(At(i))
  /\ IsRuleLine(At(i))
  /\ consumed' = [consumed EXCEPT ![i] = "rule"]
  /\ i' = i + 1
  /\ top' = i
  /\ UNCHANGED <<text, lines, blocks, pc, code_lines, rows, para_lines>>
  /\ UNCHANGED <<callvars, tokvars, convvars, dbvars>>

CodeOpen ==
  /\ pc = "outer" /\ InRange(i)
  /\ ~IsHeadingLine(At(i)) /\ ~IsRuleLine(At(i))
  /\ IsFenceLine(At(i))
  /\ code_lines' = <<>>
  /\ consumed' = [consumed EXCEPT ![i] = "fence_open"]
  /\ i' = i + 1
  /\ pc' = "code"
  /\ top' = i
  /\ UNCHANGED <<text, lines, blocks, rows, para_lines>>
  /\ UNCHANGED <<callvars, tokvars, convvars, dbvars>>

\* variant: blank lines inside a fence are dropped
CodeLineSkipBlank ==
  /\ pc = "code"
  /\ InRange(i) /\ ~IsFenceLine(At(i))
  /\ code_lines' = IF IsBlankLine(At(i)) THEN code_lines ELSE Append(code_lines, At(i))
  /\ consumed' = [consumed EXCEPT ![i] = "code"]
  /\ i' = i + 1
  /\ UNCHANGED <<text, lines, blocks, pc, rows, para_lines, top>>
  /\ UNCHANGED <<callvars, tokvars, convvars, dbvars>>

CodeLine ==
  /\ pc = "code"
  /\ InRange(i) /\ ~IsFenceLine(At(i))
  /\ code_lines' = Append(code_lines, At(i))
  /\ consumed' = [consumed EXCEPT ![i] = "code"]
  /\ i' = i + 1
  /\ UNCHANGED <<text, lines, blocks, pc, rows, para_lines, top>>
  /\ UNCHANGED <<callvars, tokvars, convvars, dbvars>>

\* variant: a fence that reaches the end of input emits nothing
CodeCloseDropUnterminated ==
  /\ pc = "code"
  /\ ~(InRange(i) /\ ~IsFenceLine(At(i)))
  /\ blocks' = IF InRange(i)
               THEN Append(blocks, [type |-> "code", text |-> Join(code_lines, <<"\n">>)])
               ELSE blocks
  /\ consumed' = IF InRange(i) THEN [consumed EXCEPT ![i] = "fence_close"] ELSE consumed
  /\ i' = i + 1
  /\ pc' = "outer"
  /\ UNCHANGED <<text, lines, code_lines, rows, para_lines, top>>
  /\ UNCHANGED <<callvars, tokvars, convvars, dbvars>>

\* variant: the closing fence is left under the cursor
CodeCloseKeepFence ==
  /\ pc = "code"
  /\ ~(InRange(i) /\ ~IsFenceLine(At(i)))
  /\ blocks' = Append(blocks, [type |-> "code", text |-> Join(code_lines, <<"\n">>)])
  /\ consumed' = IF InRange(i) THEN [consumed EXCEPT ![i] = "fence_close"] ELSE consumed
  /\ i' = IF InRange(i) THEN i ELSE i + 1
  /\ pc' = "outer"
  /\ UNCHANGED <<text, lines, code_lines, rows, para_lines, top>>
  /\ UNCHANGED <<callvars, tokvars, convvars, dbvars>>

CodeClose ==
  /\ pc = "code"
  /\ ~(InRange(i) /\ ~IsFenceLine(At(i)))
  /\ blocks' = Append(blocks, [type |-> "code", text |-> Join(code_lines, <<"\n">>)])
  /\ consumed' = IF InRange(i) THEN [consumed EXCEPT ![i] = "fence_close"] ELSE consumed
  /\ i' = i + 1
  /\ pc' = "outer"
  /\ UNCHANGED <<text, lines, code_lines, rows, para_lines, top>>
  /\ UNCHANGED <<callvars, tokvars, convvars, dbvars>>

TableOpen ==
  /\ pc = "outer" /\ InRange(i)
  /\ ~IsHeadingLine(At(i)) /\ ~IsRuleLine(At(i)) /\ ~IsFenceLine(At(i))
  /\ TableLookahead(i)
  /\ rows' = <<>>
  /\ pc' = "table"
  /\ top' = i
  /\ UNCHANGED <<text, lines, i, blocks, code_lines, para_lines, consumed>>
  /\ UNCHANGED <<callvars, tokvars, convvars, dbvars>>

\* variant: only the line directly under the header is skipped as a separator
TableLineSkipFirstOnly ==
  /\ pc = "table"
  /\ InRange(i) /\ HasPipe(At(i))
  /\ rows' = IF ~(SepRowMatch(At(i)) /\ i = top + 1) THEN Append(rows, Cells(At(i))) ELSE rows
  /\ consumed' = [consumed EXCEPT ![i] = "table"]
  /\ i' = i + 1
  /\ UNCHANGED <<text, lines, blocks, pc, code_lines, para_lines, top>>
  /\ UNCHANGED <<callvars, tokvars, convvars, dbvars>>

TableLine ==
  /\ pc = "table"
  /\ InRange(i) /\ HasPipe(At(i))
  /\ rows' = IF ~SepRowMatch(At(i)) THEN Append(rows, Cells(At(i))) ELSE rows
  /\ consumed' = [consumed EXCEPT ![i] = "table"]
  /\ i' = i + 1
  /\ UNCHANGED <<text, lines, blocks, pc, code_lines, para_lines, top>>
  /\ UNCHANGED <<callvars, tokvars, convvars, dbvars>>

\* variant: the table also ends at a line that starts with '#'
TableCloseAtHeading ==
  /\ pc = "table"
  /\ ~(InRange(i) /\ HasPipe(At(i)) /\ ~IsHeadingLine(At(i)))
  /\ blocks' = Append(blocks, [type |-> "table", rows |-> rows])
  /\ pc' = "outer"
  /\ UNCHANGED <<text, lines, i, code_lines, rows, para_lines, consumed, top>>
  /\ UNCHANGED <<callvars, tokvars, convvars, dbvars>>

\* variant: after the table the cursor goes back to the line under the header
TableCloseRewind ==
  /\ pc = "table"
  /\ ~(InRange(i) /\ HasPipe(At(i)))
  /\ blocks' = Append(blocks, [type |-> "table", rows |-> rows])
  /\ pc' = "outer"
  /\ i' = top + 1
  /\ UNCHANGED <<text, lines, code_lines, rows, para_lines, consumed, top>>
  /\ UNCHANGED <<callvars, tokvars, convvars, dbvars>>

TableClose ==
  /\ pc = "table"
  /\ ~(InRange(i) /\ HasPipe(At(i)))
  /\ blocks' = Append(blocks, [type |-> "table", rows |-> rows])
  /\ pc' = "outer"
  /\ UNCHANGED <<text, lines, i, code_lines, rows, para_lines, consumed, top>>
  /\ UNCHANGED <<callvars, tokvars, convvars, dbvars>>

EmptyLine ==
  /\ pc = "outer" /\ InRange(i)
  /\ ~IsHeadingLine(At(i)) /\ ~IsRuleLine(At(i)) /\ ~IsFenceLine(At(i))
  /\ ~TableLookahead(i)
  /\ IsBlankLine(At(i))
  /\ consumed' = [consumed EXCEPT ![i] = "blank"]
  /\ i' = i + 1
  /\ top' = i
  /\ UNCHANGED <<text, lines, blocks, pc, code_lines, rows, para_lines>>
  /\ UNCHANGED <<callvars, tokvars, convvars, dbvars>>

ParaOpen ==
  /\ pc = "outer" /\ InRange(i)
  /\ ~IsHeadingLine(At(i)) /\ ~IsRuleLine(At(i)) /\ ~IsFenceLine(At(i))
  /\ ~TableLookahead(i)
  /\ ~IsBlankLine(At(i))
  /\ para_lines' = <<>>
  /\ pc' = "para"
  /\ top' = i
  /\ UNCHANGED <<text, lines, i, blocks, code_lines, rows, consumed>>
  /\ UNCHANGED <<callvars, tokvars, convvars, dbvars>>

ParaLine ==
  /\ pc = "para"
  /\ ParaCond(i)
  /\ para_lines' = Append(para_lines, At(i))
  /\ consumed' = [consumed EXCEPT ![i] = "paragraph"]
  /\ i' = i + 1
  /\ UNCHANGED <<text, lines, blocks, pc, code_lines, rows, top>>
  /\ UNCHANGED <<callvars, tokvars, convvars, dbvars>>

ParaClose ==
  /\ pc = "para"
  /\ ~ParaCond(i)
  /\ blocks' = IF para_lines # <<>>
               THEN Append(blocks, [type |-> "paragraph", text |-> Join(para_lines, <<" ">>)])
               ELSE blocks
  /\ pc' = "outer"
  /\ UNCHANGED <<text, lines, i, code_lines, rows, para_lines, consumed, top>>
  /\ UNCHANGED <<callvars, tokvars, convvars, dbvars>>

Return ==
  /\ pc = "outer" /\ ~InRange(i)
  /\ pc' = "done"
  /\ UNCHANGED <<text, lines, i, blocks, code_lines, rows, para_lines, consumed, top>>
  /\ UNCHANGED <<callvars, tokvars, convvars, dbvars>>

\* the indices k whose line lines[k] the next step of parse_markdown evaluates:
\* lines[i] in every loop, lines[i + 1] only in the table test and in the
\* paragraph loop, behind "|" in lines[i] and i + 1 < len(lines)
LinesRead ==
  CASE pc = "outer" /\ InRange(i) ->
         {i} \cup (IF /\ ~IsHeadingLine(At(i)) /\ ~IsRuleLine(At(i)) /\ ~IsFenceLine(At(i))
                       /\ HasPipe(At(i)) /\ InRange(i + 1)
                    THEN {i + 1} ELSE {})
    [] pc \in {"code", "table"} /\ InRange(i) -> {i}
    [] pc = "para" /\ InRange(i) ->
         {i} \cup (IF /\ ~IsBlankLine(At(i)) /\ ~IsHeadingLine(At(i)) /\ ~IsFenceLine(At(i))
                       /\ HasPipe(At(i)) /\ InRange(i + 1)
                    THEN {i + 1} ELSE {})
    [] OTHER -> {}

Next ==
  \/ Heading
  \/ HorizontalRule
  \/ CodeOpen
  \/ CodeLine
  \/ CodeClose
  \/ TableOpen
  \/ TableLine
  \/ TableClose
  \/ EmptyLine
  \/ ParaOpen
  \/ ParaLine
  \/ ParaClose
  \/ Return

Spec == Init /\ [][Next]_vars

\* the interpreter keeps executing the loop: every enabled step is eventually taken
FairSpec == Spec /\ WF_vars(Next)

\* the caller parses the same text again with a newline appended:
\* parse_markdown(text) has returned, parse_markdown(text + "\n") is entered
SecondCall ==
  /\ pc = "done" /\ run = 1
  /\ first_blocks' = blocks
  /\ run' = 2
  /\ text' = text \o <<"\n">>
  /\ lines' = Split(text', "\n")
  /\ i' = 0
  /\ blocks' = <<>>
  /\ pc' = "outer"
  /\ code_lines' = <<>>
  /\ rows' = <<>>
  /\ para_lines' = <<>>
  /\ top' = 0
  /\ consumed' = [k \in 0..(Len(lines') - 1) |-> "none"]
  /\ UNCHANGED <<tokvars, convvars, dbvars>>

NextTwice ==
  \/ Next
  \/ SecondCall

\* parse_markdown(text) followed by parse_markdown(text + "\n")
SpecTwice == Init /\ [][NextTwice]_vars

TypeOK ==
  /\ pc \in {"idle", "outer", "code", "table", "para", "done"}
  /\ i \in 0..(Len(lines) + 1)
  /\ run \in {1, 2}
  /\ tpc \in {"idle", "split", "loop", "done"}
  /\ pidx \in 0..Len(parts)
  /\ cpc \in {"idle", "parse", "loop", "saved"}
  /\ bidx \in 0..Len(blocks)
  /\ dpc \in {"idle", "exists", "string", "odbc", "raised", "returned"}

(* ---------- add_formatted_text ---------- *)
EndsWith(s, p) == Len(s) >= Len(p) /\ SubSeq(s, Len(s) - Len(p) + 1, Len(s)) = p

\* the first index k >= from with s[k] = c, 0 if there is none
FirstAt(s, c, from) ==
  IF \E k \in from..Len(s) : s[k] = c
  THEN CHOOSE k \in from..Len(s) : s[k] = c /\ \A j \in from..(k - 1) : s[j] # c
  ELSE 0

\* \*\*[^*]+\*\* matched at p: the index of its last character, 0 if no match
BoldEnd(s, p) ==
  IF p + 1 <= Len(s) /\ s[p] = "*" /\ s[p + 1] = "*"
  THEN LET q == FirstAt(s, "*", p + 2)
       IN  IF q > p + 2 /\ q + 1 <= Len(s) /\ s[q + 1] = "*" THEN q + 1 ELSE 0
  ELSE 0

\* c[^c]+c matched at p (c the backtick or '*'): the index of its last character
DelimEnd(s, p, c) ==
  IF s[p] = c
  THEN LET q == FirstAt(s, c, p + 1)
       IN  IF q > p + 1 THEN q ELSE 0
  ELSE 0

\* variant: a marker that follows a backslash does not open a span
SpanEndEscapable(s, p) ==
  IF p > 1 /\ s[p - 1] = "\\" THEN 0
  ELSE IF BoldEnd(s, p) # 0 THEN BoldEnd(s, p)
  ELSE IF DelimEnd(s, p, BT) # 0 THEN DelimEnd(s, p, BT)
  ELSE DelimEnd(s, p, "*")

\* the alternation (\*\*[^*]+\*\*|`[^`]+`|\*[^*]+\*) tried at p, in that order
SpanEnd(s, p) ==
  IF BoldEnd(s, p) # 0 THEN BoldEnd(s, p)
  ELSE IF DelimEnd(s, p, BT) # 0 THEN DelimEnd(s, p, BT)
  ELSE DelimEnd(s, p, "*")

\* re.split with the capturing group: text before the leftmost match, the
\* match, then the split of the rest
RECURSIVE ReSplit(_)
ReSplit(s) ==
  LET starts == {p \in 1..Len(s) : SpanEnd(s, p) # 0}
  IN  IF starts = {} THEN << s >>
      ELSE LET p == CHOOSE x \in starts : \A y \in starts : x <= y
               e == SpanEnd(s, p)
           IN  << SubSeq(s, 1, p - 1), SubSeq(s, p, e) >> \o ReSplit(SubSeq(s, e + 1, Len(s)))

\* variant: a plain part is added with its white space trimmed
RunOfTrimPlain(part) ==
  IF StartsWith(part, <<"*", "*">>) /\ EndsWith(part, <<"*", "*">>)
  THEN [kind |-> "bold", text |-> SubSeq(part, 3, Len(part) - 2)]
  ELSE IF StartsWith(part, <<BT>>) /\ EndsWith(part, <<BT>>)
  THEN [kind |-> "code", text |-> SubSeq(part, 2, Len(part) - 1)]
  ELSE IF StartsWith(part, <<"*">>) /\ EndsWith(part, <<"*">>) /\ ~StartsWith(part, <<"*", "*">>)
  THEN [kind |-> "italic", text |-> SubSeq(part, 2, Len(part) - 1)]
  ELSE [kind |-> "plain", text |-> Strip(part, Whitespace)]

\* the run the loop body adds for one part (the if/elif chain of lines 78-90)
RunOf(part) ==
  IF StartsWith(part, <<"*", "*">>) /\ EndsWith(part, <<"*", "*">>)
  THEN [kind |-> "bold", text |-> SubSeq(part, 3, Len(part) - 2)]
  ELSE IF StartsWith(part, <<BT>>) /\ EndsWith(part, <<BT>>)
  THEN [kind |-> "code", text |-> SubSeq(part, 2, Len(part) - 1)]
  ELSE IF StartsWith(part, <<"*">>) /\ EndsWith(part, <<"*">>) /\ ~StartsWith(part, <<"*", "*">>)
  THEN [kind |-> "italic", text |-> SubSeq(part, 2, Len(part) - 1)]
  ELSE [kind |-> "plain", text |-> part]

TokAlphabet == {"*", BT, "a", " "}

\* longer inputs: "**bold** and *italic*", "***a***", a code span around "**a**",
\* a bold span around a code span, a backslash before an italic span
TokExamples ==
  { <<"*", "*", "b", "o", "l", "d", "*", "*", " ", "a", "n", "d", " ",
      "*", "i", "t", "a", "l", "i", "c", "*">>,
    <<"*", "*", "*", "a", "*", "*", "*">>,
    <<BT, "*", "*", "a", "*", "*", BT>>,
    <<"*", "*", BT, "a", BT, "*", "*">>,
    <<"\\", "*", "a", "*">> }

TokInputs == (UNION { [1..n -> TokAlphabet] : n \in 0..MaxTokLen }) \cup TokExamples

InitTok ==
  /\ ttext \in TokInputs
  /\ parts = <<>>
  /\ pidx = 0
  /\ runs = <<>>
  /\ tpc = "split"
  /\ text = <<>> /\ lines = <<>> /\ i = 0 /\ blocks = <<>> /\ pc = "idle"
  /\ code_lines = <<>> /\ rows = <<>> /\ para_lines = <<>> /\ top = 0
  /\ consumed = <<>>
  /\ run = 1 /\ first_blocks = <<>>
  /\ ConvIdle
  /\ DbIdle

TokSplit ==
  /\ tpc = "split"
  /\ parts' = ReSplit(ttext)
  /\ pidx' = 0
  /\ tpc' = "loop"
  /\ UNCHANGED <<ttext, runs>>
  /\ UNCHANGED <<parsevars, callvars, convvars, dbvars>>

\* variant: empty parts are skipped
TokPartSkipEmpty ==
  /\ tpc = "loop" /\ pidx < Len(parts)
  /\ runs' = IF parts[pidx + 1] = <<>> THEN runs ELSE Append(runs, RunOf(parts[pidx + 1]))
  /\ pidx' = pidx + 1
  /\ UNCHANGED <<ttext, parts, tpc>>
  /\ UNCHANGED <<parsevars, callvars, convvars, dbvars>>

TokPart ==
  /\ tpc = "loop" /\ pidx < Len(parts)
  /\ runs' = Append(runs, RunOf(parts[pidx + 1]))
  /\ pidx' = pidx + 1
  /\ UNCHANGED <<ttext, parts, tpc>>
  /\ UNCHANGED <<parsevars, callvars, convvars, dbvars>>

TokReturn ==
  /\ tpc = "loop" /\ pidx = Len(parts)
  /\ tpc' = "done"
  /\ UNCHANGED <<ttext, parts, pidx, runs>>
  /\ UNCHANGED <<parsevars, callvars, convvars, dbvars>>

NextTok ==
  \/ TokSplit
  \/ TokPart
  \/ TokReturn

SpecTok == InitTok /\ [][NextTok]_vars

(* ---------- convert_md_to_docx ---------- *)
MaxHeadingLevel == 4

Min(a, b) == IF a <= b THEN a ELSE b

MaxOf(S) == CHOOSE x \in S : \A y \in S : y <= x

\* add_formatted_text as one call: the runs it adds for a text, in order
TokRuns(t) == LET ps == ReSplit(t) IN [k \in 1..Len(ps) |-> RunOf(ps[k])]

\* a longer document: "##### *a*", "*a* b", "", a fence around "**a**", a table
\* with header "*a*|b" and a one-cell row, "", a table whose two lines are separators
ConvExamples ==
  { << <<"#", "#", "#", "#", "#", " ", "*", "a", "*">>,
       <<"*", "a", "*", " ", "b">>,
       <<>>,
       <<BT, BT, BT>>,
       <<"*", "*", "a", "*", "*">>,
       <<BT, BT, BT>>,
       <<"*", "a", "*", "|", "b">>,
       <<"|", "-", "|">>,
       <<"|", BT, "c", BT, "|">>,
       <<>>,
       <<"|", "-", "|">>,
       <<"|", "-", "|">> >> }

\* md_path.read_text(): the file holds any of the texts
InitConv ==
  /\ \E ls \in LineSeqs \cup ConvExamples : text = Join(ls, <<"\n">>)
  /\ lines = Split(text, "\n")
  /\ i = 0
  /\ blocks = <<>>
  /\ pc = "outer"
  /\ code_lines = <<>>
  /\ rows = <<>>
  /\ para_lines = <<>>
  /\ top = 0
  /\ consumed = [k \in 0..(Len(lines) - 1) |-> "none"]
  /\ run = 1
  /\ first_blocks = <<>>
  /\ TokIdle
  /\ doc = <<>>
  /\ bidx = 0
  /\ cpc = "parse"
  /\ DbIdle

\* parse_markdown has returned the blocks; the empty document is created
ConvDocument ==
  /\ cpc = "parse" /\ pc = "done"
  /\ doc' = <<>>
  /\ bidx' = 0
  /\ cpc' = "loop"
  /\ UNCHANGED <<parsevars, callvars, tokvars, dbvars>>

\* variant: the heading is added with the parsed level
ConvHeadingNoCap ==
  /\ cpc = "loop" /\ bidx < Len(blocks)
  /\ blocks[bidx + 1].type = "heading"
  /\ LET level == blocks[bidx + 1].level
     IN  doc' = Append(doc, [kind |-> "heading", level |-> level,
                             text |-> blocks[bidx + 1].text, left |-> (level = 1)])
  /\ bidx' = bidx + 1
  /\ UNCHANGED cpc
  /\ UNCHANGED <<parsevars, callvars, tokvars, dbvars>>

\* the texts of a list of runs, concatenated in order
RECURSIVE ConcatTexts(_)
ConcatTexts(rs) == IF rs = <<>> THEN <<>> ELSE Head(rs).text \o ConcatTexts(Tail(rs))

\* variant: the heading text goes through add_formatted_text, markers stripped
ConvHeadingFormatted ==
  /\ cpc = "loop" /\ bidx < Len(blocks)
  /\ blocks[bidx + 1].type = "heading"
  /\ LET level == Min(blocks[bidx + 1].level, MaxHeadingLevel)
     IN  doc' = Append(doc, [kind |-> "heading", level |-> level,
                             text |-> ConcatTexts(TokRuns(blocks[bidx + 1].text)),
                             left |-> (level = 1)])
  /\ bidx' = bidx + 1
  /\ UNCHANGED cpc
  /\ UNCHANGED <<parsevars, callvars, tokvars, dbvars>>

ConvHeading ==
  /\ cpc = "loop" /\ bidx < Len(blocks)
  /\ blocks[bidx + 1].type = "heading"
  /\ LET level == Min(blocks[bidx + 1].level, MaxHeadingLevel)
     IN  doc' = Append(doc, [kind |-> "heading", level |-> level,
                             text |-> blocks[bidx + 1].text, left |-> (level = 1)])
  /\ bidx' = bidx + 1
  /\ UNCHANGED cpc
  /\ UNCHANGED <<parsevars, callvars, tokvars, dbvars>>

ConvParagraph ==
  /\ cpc = "loop" /\ bidx < Len(blocks)
  /\ blocks[bidx + 1].type = "paragraph"
  /\ doc' = Append(doc, [kind |-> "paragraph", runs |-> TokRuns(blocks[bidx + 1].text)])
  /\ bidx' = bidx + 1
  /\ UNCHANGED cpc
  /\ UNCHANGED <<parsevars, callvars, tokvars, dbvars>>

ConvCode ==
  /\ cpc = "loop" /\ bidx < Len(blocks)
  /\ blocks[bidx + 1].type = "code"
  /\ doc' = Append(doc, [kind |-> "code", text |-> blocks[bidx + 1].text])
  /\ bidx' = bidx + 1
  /\ UNCHANGED cpc
  /\ UNCHANGED <<parsevars, callvars, tokvars, dbvars>>

\* the table of line 130 filled by the loops of lines 134-146: the cells of a
\* row shorter than n_cols stay empty, the runs of row 0 are made bold
TableOf(rs) ==
  LET n_cols == MaxOf({Len(rs[ri]) : ri \in 1..Len(rs)})
  IN  [kind |-> "table", n_rows |-> Len(rs), n_cols |-> n_cols,
       cells |-> [ri \in 1..Len(rs) |->
                   [ci \in 1..n_cols |->
                      IF ci <= Len(rs[ri])
                      THEN [runs |-> TokRuns(rs[ri][ci]), bold |-> (ri = 1)]
                      ELSE [runs |-> <<>>, bold |-> FALSE]]]]

\* the empty paragraph added after a table
Spacing == [kind |-> "paragraph", runs |-> <<>>]

ConvTable ==
  /\ cpc = "loop" /\ bidx < Len(blocks)
  /\ blocks[bidx + 1].type = "table"
  /\ doc' = IF blocks[bidx + 1].rows = <<>> THEN doc
            ELSE doc \o << TableOf(blocks[bidx + 1].rows), Spacing >>
  /\ bidx' = bidx + 1
  /\ UNCHANGED cpc
  /\ UNCHANGED <<parsevars, callvars, tokvars, dbvars>>

ConvSave ==
  /\ cpc = "loop" /\ bidx = Len(blocks)
  /\ cpc' = "saved"
  /\ UNCHANGED <<doc, bidx>>
  /\ UNCHANGED <<parsevars, callvars, tokvars, dbvars>>

NextConv ==
  \/ Next
  \/ ConvDocument
  \/ ConvHeading
  \/ ConvParagraph
  \/ ConvCode
  \/ ConvTable
  \/ ConvSave

SpecConv == InitConv /\ [][NextConv]_vars

(* ---------- connect (cable_thermal/db/access_reader.py) ---------- *)
\* the paths: x.accdb, x.mdb, x.ACCDB, x.MDB, d/x.Mdb, d/x.accdb, a.b.mdb, x.txt,
\* x.md, x, .mdb, x.mdb., x.accdb.bak, d.mdb/x, x.mdbx
DbPaths ==
  { <<"x", ".", "a", "c", "c", "d", "b">>,
    <<"x", ".", "m", "d", "b">>,
    <<"x", ".", "A", "C", "C", "D", "B">>,
    <<"x", ".", "M", "D", "B">>,
    <<"d", "/", "x", ".", "M", "d", "b">>,
    <<"d", "/", "x", ".", "a", "c", "c", "d", "b">>,
    <<"a", ".", "b", ".", "m", "d", "b">>,
    <<"x", ".", "t", "x", "t">>,
    <<"x", ".", "m", "d">>,
    <<"x">>,
    <<".", "m", "d", "b">>,
    <<"x", ".", "m", "d", "b", ".">>,
    <<"x", ".", "a", "c", "c", "d", "b", ".", "b", "a", "k">>,
    <<"d", ".", "m", "d", "b", "/", "x">>,
    <<"x", ".", "m", "d", "b", "x">> }

\* str.lower() on the characters the paths are made of
LowerChar(c) ==
  CASE c = "A" -> "a"
    [] c = "B" -> "b"
    [] c = "C" -> "c"
    [] c = "D" -> "d"
    [] c = "M" -> "m"
    [] OTHER -> c

Lower(s) == [k \in 1..Len(s) |-> LowerChar(s[k])]

\* Path.name: the final component of the path
PathName(p) ==
  LET seps == {k \in 1..Len(p) : p[k] = "/"}
  IN  IF seps = {} THEN p ELSE SubSeq(p, MaxOf(seps) + 1, Len(p))

\* Path.suffix: the name from its last dot on, when that dot is neither the
\* first nor the last character of the name
PathSuffix(p) ==
  LET name == PathName(p)
      dots == {k \in 1..Len(name) : name[k] = "."}
  IN  IF dots = {} THEN <<>>
      ELSE IF 1 < MaxOf(dots) /\ MaxOf(dots) < Len(name)
           THEN SubSeq(name, MaxOf(dots), Len(name))
           ELSE <<>>

Supported == { <<".", "a", "c", "c", "d", "b">>, <<".", "m", "d", "b">> }

\* the f-string of line 20, piece by piece
ConnectionString(p) ==
  << "DRIVER={", "Microsoft Access Driver (*.mdb, *.accdb)", "};DBQ=", p, ";" >>

InitDb ==
  /\ db_path \in DbPaths
  /\ db_exists \in BOOLEAN
  /\ driver_ok \in BOOLEAN
  /\ conn_str = <<>>
  /\ dpc = "exists"
  /\ outcome = NoOutcome
  /\ calls = <<>>
  /\ text = <<>> /\ lines = <<>> /\ i = 0 /\ blocks = <<>> /\ pc = "idle"
  /\ code_lines = <<>> /\ rows = <<>> /\ para_lines = <<>> /\ top = 0
  /\ consumed = <<>>
  /\ run = 1 /\ first_blocks = <<>>
  /\ TokIdle
  /\ ConvIdle

\* variant: the existence of the path is not tested
ConnExistsSkip ==
  /\ dpc = "exists"
  /\ calls' = Append(calls, "exists")
  /\ dpc' = "string"
  /\ UNCHANGED <<db_path, db_exists, driver_ok, conn_str, outcome>>
  /\ UNCHANGED <<parsevars, callvars, tokvars, convvars>>

\* lines 43-45
ConnExists ==
  /\ dpc = "exists"
  /\ calls' = Append(calls, "exists")
  /\ IF ~db_exists
     THEN /\ outcome' = [type |-> "FileNotFoundError",
                         msg |-> << "Database not found: ", db_path >>]
          /\ dpc' = "raised"
     ELSE /\ outcome' = outcome
          /\ dpc' = "string"
  /\ UNCHANGED <<db_path, db_exists, driver_ok, conn_str>>
  /\ UNCHANGED <<parsevars, callvars, tokvars, convvars>>

\* line 46: _connection_string (lines 11-20)
ConnString ==
  /\ dpc = "string"
  /\ calls' = Append(calls, "suffix")
  /\ LET suffix == Lower(PathSuffix(db_path))
     IN  IF suffix \in Supported
         THEN /\ conn_str' = ConnectionString(db_path)
              /\ outcome' = outcome
              /\ dpc' = "odbc"
         ELSE /\ conn_str' = conn_str
              /\ outcome' = [type |-> "ValueError",
                             msg |-> << "Unsupported file extension: ", suffix >>]
              /\ dpc' = "raised"
  /\ UNCHANGED <<db_path, db_exists, driver_ok>>
  /\ UNCHANGED <<parsevars, callvars, tokvars, convvars>>

\* line 47: pyodbc.connect returns a connection or raises pyodbc.Error
ConnOdbc ==
  /\ dpc = "odbc"
  /\ calls' = Append(calls, "odbc")
  /\ IF driver_ok
     THEN /\ outcome' = [type |-> "Connection", msg |-> conn_str]
          /\ dpc' = "returned"
     ELSE /\ outcome' = [type |-> "pyodbc.Error", msg |-> <<>>]
          /\ dpc' = "raised"
  /\ UNCHANGED <<db_path, db_exists, driver_ok, conn_str>>
  /\ UNCHANGED <<parsevars, callvars, tokvars, convvars>>

NextDb ==
  \/ ConnExists
  \/ ConnString
  \/ ConnOdbc

SpecDb == InitDb /\ [][NextDb]_vars

(* ---------- claims ---------- *)

\* the separator pattern of the specification: after trimming and stripping the
\* outer pipes the line is a non-empty run of '-', ':', '|' and white space
SeparatorPattern(l) ==
  LET t == Strip(Strip(l, Whitespace), {"|"})
  IN  Len(t) >= 1 /\ {t[j] : j \in 1..Len(t)} \subseteq ({"-", ":", "|"} \cup Whitespace)

\* the number of '#' characters a line begins with
RECURSIVE HashRun(_)
HashRun(l) == IF l # <<>> /\ Head(l) = "#" THEN 1 + HashRun(Tail(l)) ELSE 0

\* a line that reaches the table step: no heading, no rule, no fence, has a pipe
Candidate(k) ==
  /\ InRange(k)
  /\ ~IsHeadingLine(At(k)) /\ ~IsRuleLine(At(k)) /\ ~IsFenceLine(At(k))
  /\ HasPipe(At(k))

\* the cell rows of the lines a..b-1 that are not separator rows, in order
RECURSIVE RetainedRows(_, _)
RetainedRows(a, b) ==
  IF a >= b THEN <<>>
  ELSE (IF SeparatorPattern(At(a)) THEN <<>> ELSE << Cells(At(a)) >>) \o RetainedRows(a + 1, b)

LastBlock == blocks[Len(blocks)]

\* C1: parse_markdown terminates on every finite input: the outer loop always
\* reaches its exit, no line leaves the cursor stuck forever.
C1_Terminates == <>(pc = "done")

\* C2: a line with a pipe that reaches the table step and whose next line is no
\* separator row (or that is the last line) is not taken by the table step: the
\* paragraph step opens and its first iteration consumes the line as paragraph text.
C2_LookaheadFallsToParagraph ==
  [][ ( /\ Candidate(i)
        /\ ~(InRange(i + 1) /\ (SeparatorPattern(At(i + 1)) \/ TableSepMatch(At(i + 1))))
        /\ (pc = "outer" \/ (pc = "para" /\ para_lines = <<>>)) )
      => IF pc = "outer"
         THEN pc' = "para" /\ consumed' = consumed
         ELSE pc' = "para" /\ consumed'[i] = "paragraph" /\ para_lines' = << At(i) >> ]_vars

\* C3: a non-heading, non-rule, non-fence line with a pipe starts a Table whenever
\* the next line matches the separator pattern, outer pipes or not.
C3_SeparatorStartsTable ==
  [][ (pc = "outer" /\ Candidate(i) /\ InRange(i + 1) /\ SeparatorPattern(At(i + 1)))
      => (pc' = "table" /\ rows' = <<>>) ]_vars

\* C4: a detected table is emitted as one Table block covering the maximal run of
\* pipe lines from the header; its rows are the cells of the retained lines in
\* order, and row 0 is the header line's cells.
C4_TableExtraction ==
  [][ (pc = "table" /\ pc' = "outer")
      => /\ blocks' = Append(blocks, [type |-> "table", rows |-> RetainedRows(top, i)])
         /\ \A k \in top..(i - 1) : HasPipe(At(k))
         /\ ~(InRange(i) /\ HasPipe(At(i)))
         /\ RetainedRows(top, i) # <<>>
         /\ RetainedRows(top, i)[1] = Cells(At(top)) ]_vars

\* C7: outside a fence or table, a line whose content after leading white space
\* starts with '#' yields a Heading whose level is its '#' count; it is never
\* consumed as paragraph text.
C7_StrippedHeading ==
  /\ [][ (pc = "outer" /\ InRange(i) /\ StartsWith(LStrip(At(i), Whitespace), <<"#">>))
         => /\ Len(blocks') = Len(blocks) + 1
            /\ blocks'[Len(blocks')].type = "heading"
            /\ blocks'[Len(blocks')].level = HashRun(LStrip(At(i), Whitespace)) ]_vars
  /\ [](\A k \in DOMAIN consumed :
          consumed[k] = "paragraph" => ~StartsWith(LStrip(At(k), Whitespace), <<"#">>))

C6_HeadingLevel ==
  [][ (pc = "outer" /\ InRange(i) /\ HashRun(At(i)) >= 1)
      => /\ blocks' = Append(blocks,
              [type |-> "heading", level |-> HashRun(At(i)),
               text |-> Strip(SubSeq(At(i), HashRun(At(i)) + 1, Len(At(i))), Whitespace)])
         /\ i' = i + 1 ]_vars

C6_Witness ==
  \E b \in 1..Len(blocks) :
    /\ blocks[b].type = "heading" /\ blocks[b].level > 6
    /\ \E c \in 1..Len(blocks) : blocks[c].type = "heading" /\ blocks[c].level = 2
                                 /\ blocks[c].text = <<"a">>

\* a fence opened by the outer loop at line k with no fence line after it
UnterminatedFence(k) ==
  consumed[k] = "fence_open" /\ \A j \in (k + 1)..(Len(lines) - 1) : ~IsFenceLine(At(j))

\* the number of code blocks emitted so far
CodeBlockCount == Cardinality({b \in 1..Len(blocks) : blocks[b].type = "code"})

\* C8: a fence that is opened and never closed yields exactly one code block whose
\* text is all remaining lines joined with "\n"; nothing is emitted after it and
\* the parse finishes.
C8_UnterminatedFence ==
  /\ [][ (pc = "code" /\ ~InRange(i))
         => /\ blocks' = Append(blocks,
                 [type |-> "code", text |-> Join(SubSeq(lines, top + 2, Len(lines)), <<"\n">>)])
            /\ pc' = "outer" /\ ~InRange(i') ]_vars
  /\ [][ (pc = "outer" /\ ~InRange(i)) => (pc' = "done" /\ blocks' = blocks) ]_vars
  /\ []( (pc = "done" /\ \E k \in DOMAIN consumed : UnterminatedFence(k))
         => /\ LastBlock.type = "code"
            /\ \E k \in DOMAIN consumed :
                 /\ UnterminatedFence(k)
                 /\ LastBlock.text = Join(SubSeq(lines, k + 2, Len(lines)), <<"\n">>)
            /\ CodeBlockCount = Cardinality({k \in DOMAIN consumed : consumed[k] = "fence_open"}) )
  /\ []((pc \in {"code", "outer"} /\ ~InRange(i)) => ENABLED <<Next>>_vars)

C8_Witness ==
  /\ pc = "done"
  /\ \E k \in DOMAIN consumed : UnterminatedFence(k) /\ Len(lines) >= k + 3
  /\ LastBlock.type = "code" /\ Contains(LastBlock.text, "\n")

\* C9: every line strictly between an opening fence and its closing fence (or the
\* end of input) is appended verbatim to the code block, whatever it looks like;
\* it produces no other block and is not dropped.
C9_FenceExclusive ==
  /\ [](pc = "code" => code_lines = SubSeq(lines, top + 2, i))
  /\ [][ (pc = "code" /\ InRange(i) /\ ~IsFenceLine(At(i)))
         => /\ code_lines' = Append(code_lines, At(i))
            /\ blocks' = blocks /\ pc' = "code" /\ i' = i + 1 ]_vars
  /\ [][ (pc = "code" /\ pc' = "outer")
         => blocks' = Append(blocks,
              [type |-> "code", text |-> Join(SubSeq(lines, top + 2, i), <<"\n">>)]) ]_vars

C9_Witness ==
  /\ blocks # <<>> /\ LastBlock.type = "code"
  /\ \E k \in DOMAIN consumed : consumed[k] = "code" /\ IsHeadingLine(At(k))
  /\ \E k \in DOMAIN consumed : consumed[k] = "code" /\ IsBlankLine(At(k))

\* C10: a Paragraph's text is its consumed consecutive lines joined with one space;
\* accumulation stops at a blank line, a line starting with '#' or a fence line,
\* so none of these is ever inside a Paragraph, and a heading right after
\* paragraph lines becomes its own Heading block after the Paragraph.
C10_ParagraphBoundary ==
  /\ [](pc = "para" =>
          /\ para_lines = SubSeq(lines, top + 1, i)
          /\ \A k \in 1..Len(para_lines) :
               ~IsBlankLine(para_lines[k]) /\ HashRun(para_lines[k]) = 0
               /\ ~IsFenceLine(para_lines[k]))
  /\ [][ (pc = "para" /\ InRange(i)
            /\ (IsBlankLine(At(i)) \/ HashRun(At(i)) >= 1 \/ IsFenceLine(At(i))))
         => (pc' = "outer" /\ i' = i) ]_vars
  /\ [][ (pc = "para" /\ pc' = "outer" /\ para_lines # <<>>)
         => blocks' = Append(blocks,
              [type |-> "paragraph", text |-> Join(SubSeq(lines, top + 1, i), <<" ">>)]) ]_vars
  /\ [][ (pc = "outer" /\ InRange(i) /\ i > 0 /\ HashRun(At(i)) >= 1
            /\ consumed[i - 1] = "paragraph")
         => /\ LastBlock.type = "paragraph"
            /\ Len(blocks') = Len(blocks) + 1
            /\ blocks'[Len(blocks')].type = "heading" ]_vars

C10_Witness ==
  /\ pc = "outer" /\ i >= 3 /\ i <= Len(lines) /\ Len(blocks) >= 2
  /\ consumed[i - 1] = "heading" /\ consumed[i - 2] = "paragraph" /\ consumed[i - 3] = "paragraph"
  /\ LastBlock.type = "heading" /\ blocks[Len(blocks) - 1].type = "paragraph"
  /\ blocks[Len(blocks) - 1].text = At(i - 3) \o <<" ">> \o At(i - 2)

\* C11: while a paragraph is accumulated, a line with a pipe stops it only when
\* the line after it is a separator row; a pipe line whose next line is no
\* separator (even one that has a pipe) is joined into the paragraph.
C11_ParagraphSameLookahead ==
  /\ [][ ( /\ pc = "para" /\ InRange(i)
           /\ ~IsBlankLine(At(i)) /\ HashRun(At(i)) = 0 /\ ~IsFenceLine(At(i))
           /\ HasPipe(At(i))
           /\ ~(InRange(i + 1) /\ (SeparatorPattern(At(i + 1)) \/ TableSepMatch(At(i + 1)))) )
         => (pc' = "para" /\ para_lines' = Append(para_lines, At(i)) /\ i' = i + 1) ]_vars
  /\ [][ ( /\ pc = "para" /\ pc' = "outer" /\ InRange(i)
           /\ ~IsBlankLine(At(i)) /\ HashRun(At(i)) = 0 /\ ~IsFenceLine(At(i)) )
         => ( /\ HasPipe(At(i)) /\ InRange(i + 1)
              /\ (SeparatorPattern(At(i + 1)) \/ TableSepMatch(At(i + 1))) ) ]_vars

\* C12: outside a fence a horizontal-rule line produces no block and gives no
\* text to any block: it is consumed by the rule step only, also right after
\* paragraph lines.
C12_RulesDiscarded ==
  /\ [](\A k \in DOMAIN consumed :
          IsRuleLine(At(k)) => consumed[k] \in {"none", "rule", "code"})
  /\ [][ (pc = "outer" /\ InRange(i) /\ IsRuleLine(At(i)))
         => (blocks' = blocks /\ i' = i + 1) ]_vars

\* C13: outside a fence a blank line produces no block and ends the paragraph or
\* table being read: the lines of a paragraph or table are a contiguous run
\* without a blank line, and the emitted block is built from that run only.
C13_BlankLines ==
  /\ [][ (pc = "outer" /\ InRange(i) /\ IsBlankLine(At(i)))
         => (blocks' = blocks /\ i' = i + 1 /\ pc' = "outer") ]_vars
  /\ [][ (pc \in {"para", "table"} /\ InRange(i) /\ IsBlankLine(At(i)))
         => (pc' = "outer" /\ i' = i) ]_vars
  /\ [](pc \in {"para", "table"} =>
          \A k \in top..(i - 1) :
             ~IsBlankLine(At(k)) /\ consumed[k] = (IF pc = "para" THEN "paragraph" ELSE "table"))
  /\ [](pc = "para" => para_lines = SubSeq(lines, top + 1, i))
  /\ [](pc = "table" => rows = RetainedRows(top, i))
  /\ [][ (pc = "para" /\ pc' = "outer" /\ blocks' # blocks)
         => blocks' = Append(blocks, [type |-> "paragraph", text |-> Join(para_lines, <<" ">>)]) ]_vars
  /\ [][ (pc = "table" /\ pc' = "outer")
         => blocks' = Append(blocks, [type |-> "table", rows |-> rows]) ]_vars

C13_Witness ==
  /\ pc = "outer" /\ i = 3 /\ i <= Len(lines) /\ Len(blocks) = 2
  /\ consumed[0] \in {"paragraph", "table"} /\ consumed[1] = "blank" /\ consumed[2] = "paragraph"
  /\ blocks[2] = [type |-> "paragraph", text |-> At(2)]

\* C14: parse_markdown(t) and parse_markdown(t + "\n") return the same block
\* list, also when t ends inside an unterminated fence.
C14_TrailingNewline == (run = 2 /\ pc = "done") => blocks = first_blocks

\* C15: every line that is neither blank nor a horizontal rule ends up in exactly
\* one block of the returned list, and blocks are only ever appended, in the
\* order of their source lines.
C15_ExhaustiveOrdered ==
  /\ <>( /\ pc = "done"
         /\ \A k \in DOMAIN consumed :
              (~IsBlankLine(At(k)) /\ ~IsRuleLine(At(k)))
              => consumed[k] \in {"heading", "fence_open", "code", "fence_close",
                                  "table", "paragraph"} )
  /\ [][ \/ blocks' = blocks
         \/ (Len(blocks') = Len(blocks) + 1 /\ SubSeq(blocks', 1, Len(blocks)) = blocks) ]_vars

AllPlain(rs) == \A k \in 1..Len(rs) : rs[k].kind = "plain"

Run(k, t) == [kind |-> k, text |-> t]

\* C16 (as stated): concatenating the texts of the runs reproduces the input exactly.
C16_RoundTrip == (tpc = "done") => ConcatTexts(runs) = ttext

\* C16 (amended): the concatenated run texts reproduce the input exactly when
\* every run is Plain; when a Bold, Italic or Code run is added its markers are
\* stripped and the concatenation is strictly shorter than the input.
C16_RoundTripPlain ==
  (tpc = "done") =>
     /\ (AllPlain(runs) => ConcatTexts(runs) = ttext)
     /\ (~AllPlain(runs) => Len(ConcatTexts(runs)) < Len(ttext))

C16_Witness ==
  /\ tpc = "done" /\ AllPlain(runs)
  /\ Contains(ttext, "*") /\ Contains(ttext, " ") /\ Contains(ttext, "a")
  /\ ConcatTexts(runs) = ttext

\* a whole text of the form **x** with x non-empty and free of '*'
IsBoldSpan(s) ==
  /\ Len(s) >= 5
  /\ SubSeq(s, 1, 2) = <<"*", "*">> /\ SubSeq(s, Len(s) - 1, Len(s)) = <<"*", "*">>
  /\ \A k \in 3..(Len(s) - 2) : s[k] # "*"

BoldAndItalic ==
  <<"*", "*", "b", "o", "l", "d", "*", "*", " ", "a", "n", "d", " ",
    "*", "i", "t", "a", "l", "i", "c", "*">>

\* C17: a **x** span is one Bold run with text x, and "**bold** and *italic*"
\* yields exactly Bold("bold"), Plain(" and "), Italic("italic"), no other run.
C17_BoldPrecedence ==
  (tpc = "done") =>
     /\ (IsBoldSpan(ttext) => runs = << Run("bold", SubSeq(ttext, 3, Len(ttext) - 2)) >>)
     /\ (ttext = BoldAndItalic =>
           runs = << Run("bold", <<"b", "o", "l", "d">>),
                     Run("plain", <<" ", "a", "n", "d", " ">>),
                     Run("italic", <<"i", "t", "a", "l", "i", "c">>) >>)

\* C18: a marker with no matching closer stays literal in a Plain run: the texts
\* "*", the backtick and "**" are one Plain run each, and "***a***" keeps its
\* two leftover '*' as Plain text around Bold("a").
C18_StrayMarkersLiteral ==
  (tpc = "done") =>
     /\ (ttext \in { <<"*">>, <<BT>>, <<"*", "*">> } => runs = << Run("plain", ttext) >>)
     /\ (ttext = <<"*", "*", "*", "a", "*", "*", "*">> =>
           runs = << Run("plain", <<"*">>), Run("bold", <<"a">>), Run("plain", <<"*">>) >>)

\* C19: add_formatted_text never fails, and a text without '*' and without a
\* backtick yields exactly one run, Plain, whose text is the input.
C19_PlainTotal ==
  /\ (tpc \in {"split", "loop"} => ENABLED <<NextTok>>_vars)
  /\ ( (tpc = "done" /\ ~Contains(ttext, "*") /\ ~Contains(ttext, BT))
         => runs = << Run("plain", ttext) >> )

C19_Witness ==
  /\ tpc = "done" /\ Len(ttext) >= 3
  /\ ~Contains(ttext, "*") /\ ~Contains(ttext, BT)
  /\ Len(runs) = 1 /\ runs[1].kind = "plain" /\ runs[1].text = ttext

\* the number of pipes in a string
PipeCount(s) == Cardinality({k \in 1..Len(s) : s[k] = "|"})

\* the index of the n-th pipe of s; 0 for n = 0 and Len(s) + 1 past the last one
PipeIndex(s, n) ==
  IF n = 0 THEN 0
  ELSE IF n > PipeCount(s) THEN Len(s) + 1
  ELSE CHOOSE k \in 1..Len(s) :
         s[k] = "|" /\ Cardinality({j \in 1..(k - 1) : s[j] = "|"}) = n - 1

\* C20: a retained row is the trimmed line without its outer pipes, split at
\* every remaining pipe, each cell trimmed: (remaining pipes) + 1 cells, none
\* with leading or trailing white space; the table is emitted with the rows as
\* read, so rows may differ in length.
C20_TableCells ==
  /\ [][ (pc = "table" /\ InRange(i) /\ HasPipe(At(i)) /\ ~SeparatorPattern(At(i)))
         => /\ Len(rows') = Len(rows) + 1
            /\ SubSeq(rows', 1, Len(rows)) = rows
            /\ LET core == Strip(Strip(At(i), Whitespace), {"|"})
                   r    == rows'[Len(rows')]
               IN  /\ Len(r) = PipeCount(core) + 1
                   /\ \A c \in 1..Len(r) :
                        /\ r[c] = Strip(SubSeq(core, PipeIndex(core, c - 1) + 1,
                                                      PipeIndex(core, c) - 1), Whitespace)
                        /\ (r[c] # <<>> =>
                              (r[c][1] \notin Whitespace /\ r[c][Len(r[c])] \notin Whitespace)) ]_vars
  /\ [][ (pc = "table" /\ pc' = "outer")
         => (Len(blocks') = Len(blocks) + 1 /\ blocks'[Len(blocks')].rows = rows) ]_vars

C20_Witness ==
  /\ blocks # <<>> /\ LastBlock.type = "table"
  /\ Len(LastBlock.rows) = 2
  /\ LastBlock.rows[1] = << <<"a">>, <<"b">> >>
  /\ Len(LastBlock.rows[2]) = 1

\* the kinds of i += 1 of parse_markdown
Decisions ==
  {"heading", "rule", "fence_open", "code", "fence_close", "table", "blank", "paragraph"}

\* C22: the cursor i never decreases and moves one line at a time, the lines
\* below i are exactly the lines consumed, each by the one step that moved the
\* cursor past it, and the only line read above the cursor is the lookahead i + 1.
C22_SingleForwardCursor ==
  /\ [](\A k \in 0..(Len(lines) - 1) : (k < i) <=> (consumed[k] \in Decisions))
  /\ [](LinesRead \subseteq {i, i + 1})
  /\ [][ /\ i' \in {i, i + 1}
         /\ (i' = i) => (consumed' = consumed)
         /\ (i' = i + 1 /\ InRange(i)) =>
               /\ consumed[i] = "none"
               /\ consumed'[i] \in Decisions
               /\ \A k \in 0..(Len(lines) - 1) : k # i => consumed'[k] = consumed[k] ]_vars

C22_Witness ==
  /\ pc = "done" /\ Len(lines) = 3
  /\ consumed[0] = "table" /\ consumed[1] = "table" /\ consumed[2] = "paragraph"

\* C23: every Table block emitted has at least one row, and its row 0 is the
\* cell list of the header line that triggered table detection.
C23_TableHasHeaderRow ==
  [][ (pc = "table" /\ pc' = "outer") =>
        (rows # <<>> /\ rows[1] = Cells(At(top))) ]_vars

\* C24: an open fence is closed by the first later line whose trimmed content
\* starts with three backticks; the code block's text is the lines strictly
\* between the two fence lines joined with "\n", and the cursor resumes in the
\* default state on the line after the closing fence.
C24_FenceDelimiters ==
  [][ (pc = "code" /\ pc' = "outer" /\ InRange(i)) =>
        /\ IsFenceLine(At(top)) /\ IsFenceLine(At(i))
        /\ \A k \in (top + 1)..(i - 1) : ~IsFenceLine(At(k)) /\ consumed[k] = "code"
        /\ blocks' = Append(blocks, [type |-> "code",
                                     text |-> Join(SubSeq(lines, top + 2, i), <<"\n">>)])
        /\ consumed[top] = "fence_open" /\ consumed'[i] = "fence_close"
        /\ i' = i + 1 ]_vars

C24_Witness ==
  /\ pc = "done" /\ Len(lines) = 3
  /\ At(0) = <<" ", BT, BT, BT, "a">>
  /\ consumed = [k \in 0..2 |-> <<"fence_open", "fence_close", "heading">>[k + 1]]
  /\ Len(blocks) = 2 /\ blocks[1] = [type |-> "code", text |-> <<>>]
  /\ blocks[2].type = "heading"

\* C25: a table ends exactly at the first line after its header that has no
\* '|' (or at the end of input) and leaves that line under the cursor; every
\* line with a '|' before it is consumed by the table, also one that starts
\* with '#' or with three backticks, and produces no block of its own.
C25_TableExtent ==
  /\ [][ (pc = "table" /\ pc' = "outer") =>
           /\ ~(InRange(i) /\ HasPipe(At(i)))
           /\ \A k \in top..(i - 1) : HasPipe(At(k)) /\ consumed[k] = "table"
           /\ i' = i /\ consumed' = consumed
           /\ blocks' = Append(blocks, [type |-> "table", rows |-> rows]) ]_vars
  /\ [][ (pc = "table" /\ InRange(i) /\ HasPipe(At(i))) =>
           /\ pc' = "table" /\ i' = i + 1 /\ consumed'[i] = "table"
           /\ blocks' = blocks ]_vars

C25_Witness ==
  /\ pc = "done" /\ Len(blocks) = 1 /\ blocks[1].type = "table"
  /\ \E k \in 0..(Len(lines) - 1) :
       /\ consumed[k] = "table" /\ IsFenceLine(At(k))
       /\ \E r \in 1..Len(blocks[1].rows) : blocks[1].rows[r] = Cells(At(k))

\* the marker of a run kind
Marker(kind) ==
  CASE kind = "bold" -> <<"*", "*">>
    [] kind = "italic" -> <<"*">>
    [] kind = "code" -> <<BT>>
    [] OTHER -> <<>>

\* every run's text wrapped in its own marker again, concatenated in order
RECURSIVE Rewrap(_)
Rewrap(rs) ==
  IF rs = <<>> THEN <<>>
  ELSE Marker(Head(rs).kind) \o Head(rs).text \o Marker(Head(rs).kind) \o Rewrap(Tail(rs))

\* a part that is one whole span of the pattern
IsSpan(part) == part # <<>> /\ SpanEnd(part, 1) = Len(part)

\* C26: every Bold, Italic or Code run has a non-empty text and comes from a
\* matched pair of identical markers around at least one character.
C26_FormattedRunsNonEmpty ==
  (tpc = "done") =>
     \A k \in 1..Len(runs) :
        runs[k].kind # "plain" => (runs[k].text # <<>> /\ IsSpan(parts[k]))

\* C27: wrapping each run's text in its own marker again ('**' Bold, '*' Italic,
\* backtick Code, nothing Plain) and concatenating reproduces the input.
C27_MarkerRoundTrip == (tpc = "done") => Rewrap(runs) = ttext

\* the sequences of a list concatenated in order
RECURSIVE ConcatSeqs(_)
ConcatSeqs(ss) == IF ss = <<>> THEN <<>> ELSE Head(ss) \o ConcatSeqs(Tail(ss))

\* the runs with a non-empty text, in order
NonEmptyRuns == SelectSeq(runs, LAMBDA r : r.text # <<>>)

\* C28: the parts cut the input into consecutive pieces, one run per piece in
\* source order, and a matched span is one formatted run holding everything
\* between its markers: a code span around "**a**" is Code("**a**"), a bold span
\* around a code span is one Bold run, and a backslash before '*' leaves '*' a marker.
C28_NoNestingNoEscape ==
  (tpc = "done") =>
     /\ ConcatSeqs(parts) = ttext
     /\ Len(runs) = Len(parts)
     /\ \A k \in 1..Len(parts) :
          /\ \E a \in 1..(Len(parts[k]) + 1) : \E b \in 0..Len(parts[k]) :
                runs[k].text = SubSeq(parts[k], a, b)
          /\ IsSpan(parts[k]) =>
                /\ runs[k].kind # "plain"
                /\ Rewrap(<< runs[k] >>) = parts[k]
     /\ (ttext = <<BT, "*", "*", "a", "*", "*", BT>> =>
           NonEmptyRuns = << Run("code", <<"*", "*", "a", "*", "*">>) >>)
     /\ (ttext = <<"*", "*", BT, "a", BT, "*", "*">> =>
           NonEmptyRuns = << Run("bold", <<BT, "a", BT>>) >>)
     /\ (ttext = <<"\\", "*", "a", "*">> =>
           NonEmptyRuns = << Run("plain", <<"\\">>), Run("italic", <<"a">>) >>)

C28_Witness ==
  /\ tpc = "done"
  /\ ttext = <<"\\", "*", "a", "*">>
  /\ Len(runs) = 3 /\ runs[2] = Run("italic", <<"a">>)

\* C21: connect raises FileNotFoundError ("Database not found: ...") whenever
\* the path does not exist, before the suffix is examined and before any ODBC
\* call; ValueError is raised only for an existing path whose suffix is neither
\* .mdb nor .accdb, and before any ODBC call.
C21_MissingFileFirst ==
  /\ (dpc \in {"raised", "returned"} /\ ~db_exists) =>
        /\ dpc = "raised"
        /\ outcome = [type |-> "FileNotFoundError",
                      msg |-> << "Database not found: ", db_path >>]
        /\ calls = << "exists" >>
  /\ (outcome.type = "FileNotFoundError") => ~db_exists
  /\ (outcome.type = "ValueError") =>
        /\ dpc = "raised"
        /\ db_exists
        /\ PathSuffix(db_path) \notin Supported
        /\ calls = << "exists", "suffix" >>
  /\ (dpc \in {"raised", "returned"} /\ db_exists /\ Lower(PathSuffix(db_path)) \notin Supported)
        => outcome.type = "ValueError"
  /\ (\E k \in 1..Len(calls) : calls[k] = "odbc") =>
        (db_exists /\ Lower(PathSuffix(db_path)) \in Supported)

C21_Witness ==
  /\ dpc = "raised" /\ ~db_exists
  /\ db_path = <<"x", ".", "t", "x", "t">>
  /\ outcome.type = "FileNotFoundError"

\* the levels of the Heading blocks, in list order
HeadingBlockLevels ==
  LET hs == SelectSeq(blocks, LAMBDA b : b.type = "heading")
  IN  [k \in 1..Len(hs) |-> hs[k].level]

\* the levels of the headings written to the document, in order
DocHeadingLevels ==
  LET hs == SelectSeq(doc, LAMBDA d : d.kind = "heading")
  IN  [k \in 1..Len(hs) |-> hs[k].level]

\* the '#' counts of the lines consumed as headings, from line a on, in order
RECURSIVE HeadingHashRuns(_)
HeadingHashRuns(a) ==
  IF ~InRange(a) THEN <<>>
  ELSE (IF consumed[a] = "heading" THEN << HashRun(At(a)) >> ELSE <<>>)
         \o HeadingHashRuns(a + 1)

\* C29: convert_md_to_docx adds each Heading with level min(parsed level, 4),
\* the parser's block keeps the raw '#' count, and every heading written to the
\* document has a level between 1 and 4.
C29_HeadingCapInSink ==
  /\ [](\A k \in 1..Len(doc) : doc[k].kind = "heading" => doc[k].level \in 1..4)
  /\ []((cpc = "saved") =>
          /\ HeadingBlockLevels = HeadingHashRuns(0)
          /\ DocHeadingLevels = [k \in 1..Len(HeadingBlockLevels) |->
                                   IF HeadingBlockLevels[k] < 4 THEN HeadingBlockLevels[k] ELSE 4])
  /\ [][ (cpc = "loop" /\ bidx < Len(blocks) /\ blocks[bidx + 1].type = "heading") =>
           /\ blocks' = blocks
           /\ Len(doc') = Len(doc) + 1
           /\ doc'[Len(doc')].kind = "heading"
           /\ doc'[Len(doc')].level =
                IF blocks[bidx + 1].level < 4 THEN blocks[bidx + 1].level ELSE 4 ]_vars

C29_Witness ==
  /\ cpc = "saved"
  /\ \E k \in 1..Len(blocks) : blocks[k].type = "heading" /\ blocks[k].level = 7
  /\ \E k \in 1..Len(doc) : doc[k].kind = "heading" /\ doc[k].level = 4
  /\ \E k \in 1..Len(doc) : doc[k].kind = "heading" /\ doc[k].level = 1

\* the number of body elements a block writes
Written(b) ==
  IF b.type = "table" THEN (IF b.rows = <<>> THEN 0 ELSE 2) ELSE 1

\* the number of body elements the blocks before block k write
RECURSIVE Offset(_)
Offset(k) == IF k <= 1 THEN 0 ELSE Offset(k - 1) + Written(blocks[k - 1])

\* C30: convert_md_to_docx renders the blocks in list order, each exactly once;
\* add_formatted_text is applied to paragraph text and to each table cell's
\* text only, heading text and code text are written as they are, and a Table
\* with no rows writes nothing.
C30_SinkConsumption ==
  /\ []((cpc = "loop") => Len(doc) = Offset(bidx + 1))
  /\ []((cpc = "saved") =>
          /\ bidx = Len(blocks)
          /\ Len(doc) = Offset(Len(blocks) + 1)
          /\ \A k \in 1..Len(blocks) :
               LET b == blocks[k]
                   d == doc[Offset(k) + 1]
               IN  CASE b.type = "heading" -> d.kind = "heading" /\ d.text = b.text
                     [] b.type = "code" -> d.kind = "code" /\ d.text = b.text
                     [] b.type = "paragraph" ->
                          d.kind = "paragraph" /\ d.runs = TokRuns(b.text)
                     [] b.type = "table" /\ b.rows # <<>> ->
                          /\ d.kind = "table" /\ d.n_rows = Len(b.rows)
                          /\ \A ri \in 1..Len(b.rows) : \A ci \in 1..Len(b.rows[ri]) :
                                d.cells[ri][ci].runs = TokRuns(b.rows[ri][ci])
                          /\ doc[Offset(k) + 2] = Spacing
                     [] OTHER -> Written(b) = 0)
  /\ [][ (cpc = "loop" /\ cpc' = "loop") =>
           /\ bidx' = bidx + 1
           /\ blocks' = blocks
           /\ SubSeq(doc', 1, Len(doc)) = doc ]_vars

C30_Witness ==
  /\ cpc = "saved"
  /\ Len(lines) = 12
  /\ Len(blocks) = 5 /\ Len(doc) = 5
  /\ doc[1].kind = "heading" /\ doc[1].text = <<"*", "a", "*">>
  /\ doc[2].runs[2] = Run("italic", <<"a">>)
  /\ doc[3] = [kind |-> "code", text |-> <<"*", "*", "a", "*", "*">>]
  /\ doc[4].cells[2][1].runs[2] = Run("code", <<"c">>)
  /\ blocks[5] = [type |-> "table", rows |-> <<>>]

====
